---- MODULE Spec2Model ----
(***************************************************************************)
(* flxdb core (src/index.js): the nested dot-path document, the TTL/schema *)
(* tracker, schema validation, namespaces and the JSON file behind them.   *)
(*                                                                         *)
(* Strings that the code takes apart (keys, field names, prefixes) are     *)
(* sequences of symbols, so split, join, concatenation and slicing are     *)
(* computed as the code computes them.  The symbols are the characters     *)
(* "a", "b", "0", "." and the words "valueOf" and "undefined", each word   *)
(* standing for its characters as one symbol.                              *)
(*                                                                         *)
(* JavaScript values are tagged records:                                   *)
(*   [t |-> "undefined"]  [t |-> "null"]  [t |-> "number", n |-> 1]        *)
(*   [t |-> "string", s |-> "x"]  [t |-> "boolean", b |-> TRUE]            *)
(*   [t |-> "function", f |-> "valueOf"]                                   *)
(*   [t |-> "array", a |-> <<...>>]                                        *)
(*   [t |-> "object", o |-> [field name |-> value]]  (own properties)      *)
(***************************************************************************)
EXTENDS Integers, Sequences, FiniteSets, TLC

VARIABLES data, meta, schemas, now, disk, autosave, diskOk, ops, call, ret, nsaves, saveFailed,
          watch, held

vars == <<data, meta, schemas, now, disk, autosave, diskOk, ops, call, ret, nsaves, saveFailed,
          watch, held>>

-----------------------------------------------------------------------------
(* Bounds of the model *)

\* public calls per behaviour (clock ticks and backend faults are not calls)
MaxOps == 3
\* the clock runs from 1 to MaxTime
MaxTime == 2

-----------------------------------------------------------------------------
(* JavaScript values *)

Undef == [t |-> "undefined"]
Null == [t |-> "null"]
Num(n) == [t |-> "number", n |-> n]
Str(s) == [t |-> "string", s |-> s]
Bool(b) == [t |-> "boolean", b |-> b]
Fn(f) == [t |-> "function", f |-> f]
Arr(a) == [t |-> "array", a |-> a]
Obj(o) == [t |-> "object", o |-> o]

\* {} : an object with no own property
EmptyFields == [f \in {} |-> Undef]
EmptyObj == Obj(EmptyFields)

\* { f: v }
Field(f, v) == [x \in {f} |-> v]

\* o with own property f set to v (o[f] = v)
Put(o, f, v) == [x \in (DOMAIN o) \cup {f} |-> IF x = f THEN v ELSE o[x]]

\* o without own property f (delete o[f])
Drop(o, f) == [x \in (DOMAIN o) \ {f} |-> o[x]]

\* typeof v === "object" && v !== null && !Array.isArray(v)
IsMapping(v) == v.t = "object"

\* JavaScript truthiness
Truthy(v) ==
    CASE v.t = "undefined" -> FALSE
      [] v.t = "null" -> FALSE
      [] v.t = "number" -> v.n # 0
      [] v.t = "string" -> v.s # ""
      [] v.t = "boolean" -> v.b
      [] OTHER -> TRUE

\* the typeof operator
TypeOf(v) ==
    CASE v.t = "null" -> "object"
      [] v.t = "array" -> "object"
      [] OTHER -> v.t

\* the properties every object and array inherits (Object.prototype), of
\* which the model keeps one
ProtoNames == {<<"valueOf">>}

\* the index an array property name denotes, or -1
ArrayIndex(p) == IF p = <<"0">> THEN 0 ELSE -1

\* p in v, for v an object or an array
HasProp(v, p) ==
    CASE v.t = "object" -> p \in DOMAIN v.o \/ p \in ProtoNames
      [] v.t = "array" -> (ArrayIndex(p) >= 0 /\ ArrayIndex(p) < Len(v.a)) \/ p \in ProtoNames
      [] OTHER -> FALSE

\* v[p], for v an object or an array
GetProp(v, p) ==
    CASE v.t = "object" /\ p \in DOMAIN v.o -> v.o[p]
      [] v.t = "array" /\ ArrayIndex(p) >= 0 /\ ArrayIndex(p) < Len(v.a) -> v.a[ArrayIndex(p) + 1]
      [] v.t \in {"object", "array"} /\ p \in ProtoNames -> Fn(p[1])
      [] OTHER -> Undef

-----------------------------------------------------------------------------
(* Strings *)

Dot == "."

\* s.split(".") : the pieces between the dots, empty pieces included
RECURSIVE SplitFrom(_, _, _)
SplitFrom(s, i, cur) ==
    IF i > Len(s) THEN <<cur>>
    ELSE IF s[i] = Dot THEN <<cur>> \o SplitFrom(s, i + 1, <<>>)
    ELSE SplitFrom(s, i + 1, Append(cur, s[i]))

Split(s) == SplitFrom(s, 1, <<>>)

\* .filter(Boolean) on a list of strings
FilterNonEmpty(ps) == SelectSeq(ps, LAMBDA p : p # <<>>)

\* `${prefix}.${k}`
DotJoin(prefix, k) == prefix \o <<Dot>> \o k

\* s.startsWith(p)
StartsWith(s, p) == Len(p) <= Len(s) /\ SubSeq(s, 1, Len(p)) = p

\* s.slice(n)
Slice(s, n) == SubSeq(s, n + 1, Len(s))

\* String(undefined), the property name an undefined key becomes
UndefinedName == <<"undefined">>

-----------------------------------------------------------------------------
(* The store an operation works on: what a call reads and writes of
   FlxDBCore (this.data, this.meta) and of the file, the number of
   fs.writeFileSync calls made so far in the current public call, and
   whether one of them has failed since construction *)

Store(d, m, f, n, x) == [data |-> d, meta |-> m, disk |-> f, nsaves |-> n, failed |-> x]

\* an operation's outcome: the store it leaves and what it returns or throws
Out(st, r) == [st |-> st, ret |-> r]

Returns(v) == [t |-> "return", v |-> v]
ReturnsList(l) == [t |-> "list", l |-> l]
ReturnsVoid == [t |-> "void"]
Throws(e) == [t |-> "throw", e |-> e]

\* expiresAt: null (no expiry)
NoExpiry == 0
\* schema: null
NoSchema == "null"

EmptyMeta == [k \in {} |-> [expiresAt |-> NoExpiry, schema |-> NoSchema]]

\* what the file holds: nothing (no file), text that is empty or does not
\* parse, or the JSON text of a document (kept as the value it parses to)
NoFile == [kind |-> "none"]
EmptyFile == [kind |-> "empty"]
CorruptFile == [kind |-> "corrupt"]
JsonFile(v) == [kind |-> "json", doc |-> v]

\* JSON.parse(JSON.stringify(v)): object fields holding undefined or a
\* function are dropped, array elements holding them become null
RECURSIVE Stringify(_)
Stringify(v) ==
    CASE v.t = "object" ->
           Obj([f \in {g \in DOMAIN v.o : v.o[g].t \notin {"undefined", "function"}}
                  |-> Stringify(v.o[f])])
      [] v.t = "array" ->
           Arr([i \in 1..Len(v.a) |->
                  IF v.a[i].t \in {"undefined", "function"} THEN Null ELSE Stringify(v.a[i])])
      [] OTHER -> v

\* _save
save(st) ==
    IF ~autosave THEN st
    ELSE IF diskOk
         THEN [st EXCEPT !.disk = JsonFile(Stringify(st.data)), !.nsaves = @ + 1]
         ELSE [st EXCEPT !.nsaves = @ + 1, !.failed = TRUE]

\* _splitKey, for a key that is a string
splitKey(key) == FilterNonEmpty(Split(key))

\* a step of the loop that keeps only the slot it went through
getRefStepAlone(obj, p, w) == [found |-> w.found, obj |-> Obj(Field(p, w.obj))]

\* one step of the loop of _getRef, the rest of the walk w done: the object
\* with the step's slot holding what the walk left there
getRefStep(obj, p, w) == [found |-> w.found, obj |-> Obj(Put(obj.o, p, w.obj))]

\* the loop of _getRef over the segments before the last: the object it ends
\* in, or not found; with createMissing, absent and non-mapping steps are
\* replaced by {} on the way
RECURSIVE getRefWalk(_, _, _)
getRefWalk(obj, between, createMissing) ==
    IF between = <<>> THEN [found |-> TRUE, obj |-> obj]
    ELSE IF IsMapping(GetProp(obj, Head(between)))
         THEN getRefStep(obj, Head(between),
                         getRefWalk(GetProp(obj, Head(between)), Tail(between), createMissing))
         ELSE IF ~createMissing THEN [found |-> FALSE, obj |-> obj]
         ELSE getRefStep(obj, Head(between),
                         getRefWalk(EmptyObj, Tail(between), createMissing))

\* parts[parts.length - 1]: undefined, as a property name, when parts is empty
LastOf(parts) == IF parts = <<>> THEN UndefinedName ELSE parts[Len(parts)]

\* the segments before the last
Between(parts) == IF parts = <<>> THEN <<>> ELSE SubSeq(parts, 1, Len(parts) - 1)

\* what _getRef returns: found is parent !== null, data is this.data after
\* the walk, path leads from the root to the parent, last is the terminal
\* segment
Ref(w, path, last) == [found |-> w.found, data |-> w.obj, path |-> path, last |-> last]

getRefParts(d, parts, createMissing) ==
    Ref(getRefWalk(d, Between(parts), createMissing), Between(parts), LastOf(parts))

\* _getRef
getRef(d, key, createMissing) == getRefParts(d, splitKey(key), createMissing)

\* the object a path of own mapping fields leads to
RECURSIVE At(_, _)
At(obj, path) == IF path = <<>> THEN obj ELSE At(obj.o[Head(path)], Tail(path))

\* parent[last] = v, for the parent at path
RECURSIVE AssignAt(_, _, _, _)
AssignAt(obj, path, last, v) ==
    IF path = <<>> THEN Obj(Put(obj.o, last, v))
    ELSE Obj(Put(obj.o, Head(path), AssignAt(obj.o[Head(path)], Tail(path), last, v)))

\* delete parent[last], for the parent at path
RECURSIVE DeleteAt(_, _, _)
DeleteAt(obj, path, last) ==
    IF path = <<>> THEN Obj(Drop(obj.o, last))
    ELSE Obj(Put(obj.o, Head(path), DeleteAt(obj.o[Head(path)], Tail(path), last)))

\* parent && last in parent, for what _getRef(key, false) returned
RefPresent(d, r) == r.found /\ HasProp(At(d, r.path), r.last)

\* the document d holds a value under key
HoldsKey(d, key) == RefPresent(d, getRef(d, key, FALSE))

-----------------------------------------------------------------------------
(* TTL and schema helpers *)

\* meta.expiresAt && meta.expiresAt <= Date.now()
IsExpired(m, key) ==
    key \in DOMAIN m /\ m[key].expiresAt # NoExpiry /\ m[key].expiresAt <= now

\* a reclaim that leaves the value where it is
reclaimRefKeep(d, r) == [data |-> d, changed |-> FALSE]

\* if (parent && last in parent) { delete parent[last]; changed = true }
reclaimRef(d, r) ==
    IF RefPresent(d, r)
    THEN [data |-> DeleteAt(d, r.path, r.last), changed |-> TRUE]
    ELSE [data |-> d, changed |-> FALSE]

\* the body of the loop of _cleanupExpired for one expired key
reclaim(d, key) == reclaimRef(d, getRef(d, key, FALSE))

\* the entry the loop of _cleanupExpired takes next.  Entries are taken in
\* one fixed order; the outcome of the loop does not depend on it.
NextEntry(ks) == CHOOSE k \in ks : \A k2 \in ks : Len(k) <= Len(k2)

\* the loop of _cleanupExpired over the expired entries of this.meta
RECURSIVE cleanupLoop(_, _)
cleanupStep(r, rest, key) ==
    cleanupLoop([data |-> reclaim(r.data, key).data,
                 changed |-> r.changed \/ reclaim(r.data, key).changed], rest)

cleanupLoop(r, ks) ==
    IF ks = {} THEN r ELSE cleanupStep(r, ks \ {NextEntry(ks)}, NextEntry(ks))

ExpiredKeys(m) == {k \in DOMAIN m : IsExpired(m, k)}

\* an end of _cleanupExpired that saves whether or not a value was removed
cleanupDoneSaving(st, r) ==
    save([st EXCEPT !.data = r.data,
                    !.meta = [k \in (DOMAIN st.meta) \ ExpiredKeys(st.meta) |-> st.meta[k]]])

\* the end of _cleanupExpired: if (changed) this._save()
cleanupDone(st, r) ==
    IF r.changed
    THEN save([st EXCEPT !.data = r.data,
                         !.meta = [k \in (DOMAIN st.meta) \ ExpiredKeys(st.meta) |-> st.meta[k]]])
    ELSE [st EXCEPT !.meta = [k \in (DOMAIN st.meta) \ ExpiredKeys(st.meta) |-> st.meta[k]]]

\* _cleanupExpired
cleanupExpired(st) ==
    cleanupDone(st, cleanupLoop([data |-> st.data, changed |-> FALSE], ExpiredKeys(st.meta)))

\* _checkExpiredSingle for an expired key, r what the reclaim did
checkExpiredDone(st, key, r) ==
    IF r.changed
    THEN [st |-> save([st EXCEPT !.data = r.data, !.meta = Drop(st.meta, key)]),
          expired |-> TRUE]
    ELSE [st |-> [st EXCEPT !.meta = Drop(st.meta, key)], expired |-> TRUE]

\* _checkExpiredSingle
checkExpiredSingle(st, key) ==
    IF ~IsExpired(st.meta, key) THEN [st |-> st, expired |-> FALSE]
    ELSE checkExpiredDone(st, key, reclaim(st.data, key))

\* a schema definition: type "" is no declared type
Schema(type, required, props) == [type |-> type, required |-> required, props |-> props]

\* Object.prototype.hasOwnProperty.call(value, field)
HasOwn(value, field) ==
    CASE value.t = "object" -> field \in DOMAIN value.o
      [] value.t = "array" -> ArrayIndex(field) >= 0 /\ ArrayIndex(field) < Len(value.a)
      [] OTHER -> FALSE

\* _validateWithSchema against a registered schema: "ok", or the error thrown
validate(schema, value) ==
    IF schema.type # "" /\ TypeOf(value) # schema.type THEN "TypeMismatch"
    ELSE IF schema.type # "object" THEN "ok"
    ELSE IF value.t = "null" /\ (schema.required # {} \/ DOMAIN schema.props # {})
         THEN "TypeError"
    ELSE IF \E field \in schema.required :
               ~HasOwn(value, field) \/ GetProp(value, field).t = "undefined"
         THEN "Required"
    ELSE IF \E field \in DOMAIN schema.props :
               /\ GetProp(value, field).t # "undefined"
               /\ schema.props[field] # ""
               /\ TypeOf(GetProp(value, field)) # schema.props[field]
         THEN "PropType"
    ELSE "ok"

\* _validateWithSchema
validateWithSchema(schemaName, value) ==
    IF schemaName \notin DOMAIN schemas THEN "SchemaNotFound"
    ELSE validate(schemas[schemaName], value)

-----------------------------------------------------------------------------
(* Public API of FlxDBCore *)

\* no ttl option
NoTtl == 0

\* a merge that replaces every field the source names (Object.assign)
deepMergeShallow(target, source) ==
    Obj([key \in (DOMAIN target.o) \cup (DOMAIN source.o) |->
           IF key \in DOMAIN source.o THEN source.o[key] ELSE target.o[key]])

\* _deepMerge, for a source that is a mapping
RECURSIVE deepMerge(_, _)
deepMerge(target, source) ==
    Obj([key \in (DOMAIN target.o) \cup (DOMAIN source.o) |->
           IF key \notin DOMAIN source.o THEN target.o[key]
           ELSE IF ~IsMapping(source.o[key]) THEN source.o[key]
           ELSE IF IsMapping(GetProp(target, key))
                THEN deepMerge(GetProp(target, key), source.o[key])
                ELSE deepMerge(EmptyObj, source.o[key])])

\* set(key) in object mode: db.set({ ... })
setObject(st, source) ==
    Out(save([st EXCEPT !.data = deepMerge(st.data, source)]), Returns(source))

\* the meta update of set
setMeta(m, key, ttl, schemaName) ==
    IF ttl # NoTtl \/ schemaName # NoSchema
    THEN Put(m, key, [expiresAt |-> IF ttl # NoTtl THEN now + ttl ELSE NoExpiry,
                      schema |-> schemaName])
    ELSE Drop(m, key)

\* set giving up, with nothing assigned, when the file cannot be written
setCommitSurfacing(st, key, value, ttl, schemaName, r) ==
    IF autosave /\ ~diskOk
    THEN Out([st EXCEPT !.nsaves = @ + 1, !.failed = TRUE], Throws("Error"))
    ELSE Out(save([st EXCEPT !.data = AssignAt(r.data, r.path, r.last, value),
                             !.meta = setMeta(st.meta, key, ttl, schemaName)]),
             Returns(value))

\* set after validation: r is what _getRef(key, true) returned
setCommit(st, key, value, ttl, schemaName, r) ==
    Out(save([st EXCEPT !.data = AssignAt(r.data, r.path, r.last, value),
                        !.meta = setMeta(st.meta, key, ttl, schemaName)]),
        Returns(value))

\* set committing the value before it looks at what the validation said
setValidatedLate(st, key, value, ttl, schemaName, err) ==
    IF err # "ok"
    THEN Out(setCommit(st, key, value, ttl, schemaName, getRef(st.data, key, TRUE)).st,
             Throws(err))
    ELSE setCommit(st, key, value, ttl, schemaName, getRef(st.data, key, TRUE))

\* set, err being what the validation said
setValidated(st, key, value, ttl, schemaName, err) ==
    IF err # "ok" THEN Out(st, Throws(err))
    ELSE setCommit(st, key, value, ttl, schemaName, getRef(st.data, key, TRUE))

\* set(key, value, options) in string-key mode; ttl and schemaName are the
\* options after their normalisation (NoTtl, NoSchema when not given)
set(st, key, value, ttl, schemaName) ==
    setValidated(st, key, value, ttl, schemaName,
                 IF schemaName # NoSchema THEN validateWithSchema(schemaName, value) ELSE "ok")

\* a write through set(key, value) whose caller returns the value written
setAndReturn(st, key, value) == Out(set(st, key, value, NoTtl, NoSchema).st, Returns(value))

\* the loop of get and has over the segments of the key
RECURSIVE walk(_, _)
walk(obj, parts) ==
    IF parts = <<>> THEN [found |-> TRUE, value |-> obj]
    ELSE IF obj.t \notin {"object", "array"} THEN [found |-> FALSE, value |-> Undef]
    ELSE IF ~HasProp(obj, Head(parts)) THEN [found |-> FALSE, value |-> Undef]
    ELSE walk(GetProp(obj, Head(parts)), Tail(parts))

\* return obj === undefined ? defaultValue : obj
getFound(st, w, dflt) ==
    IF ~w.found \/ w.value = Undef THEN Out(st, Returns(dflt)) ELSE Out(st, Returns(w.value))

\* get after the lazy check c
getChecked(c, key, dflt) ==
    IF c.expired THEN Out(c.st, Returns(dflt))
    ELSE getFound(c.st, walk(c.st.data, splitKey(key)), dflt)

\* get(key, defaultValue); a defaultValue of undefined is the parameter's
\* default, null
get(st, key, defaultValue) ==
    getChecked(checkExpiredSingle(st, key), key,
               IF defaultValue = Undef THEN Null ELSE defaultValue)

\* has after the lazy check c
hasChecked(c, key) ==
    IF c.expired THEN Out(c.st, Returns(Bool(FALSE)))
    ELSE Out(c.st, Returns(Bool(walk(c.st.data, splitKey(key)).found)))

\* has(key)
has(st, key) == hasChecked(checkExpiredSingle(st, key), key)

\* ensure, h being what has(key) did
ensureHas(h, key, defaultValue) ==
    IF ~h.ret.v.b THEN setAndReturn(h.st, key, defaultValue) ELSE get(h.st, key, Undef)

\* ensure(key, defaultValue)
ensure(st, key, defaultValue) == ensureHas(has(st, key), key, defaultValue)

\* delete that does not save
deleteRefUnsaved(st, key, r) ==
    IF ~RefPresent(st.data, r) THEN Out(st, Returns(Bool(FALSE)))
    ELSE Out([st EXCEPT !.data = DeleteAt(st.data, r.path, r.last),
                        !.meta = Drop(st.meta, key)],
             Returns(Bool(TRUE)))

\* delete, r being what _getRef(key, false) returned
deleteRef(st, key, r) ==
    IF ~RefPresent(st.data, r) THEN Out(st, Returns(Bool(FALSE)))
    ELSE Out(save([st EXCEPT !.data = DeleteAt(st.data, r.path, r.last),
                             !.meta = Drop(st.meta, key)]),
             Returns(Bool(TRUE)))

\* delete(key)
delete(st, key) == deleteRef(st, key, getRef(st.data, key, FALSE))

\* Number(v) || 0, for the values of the model
ToNumberOr0(v) ==
    CASE v.t = "number" -> v.n
      [] v.t = "boolean" -> IF v.b THEN 1 ELSE 0
      [] v.t = "array" /\ Len(v.a) = 1 /\ v.a[1].t = "number" -> v.a[1].n
      [] OTHER -> 0

\* add, g being what get(key, 0) did
addGot(g, key, a) == setAndReturn(g.st, key, Num(ToNumberOr0(g.ret.v) + a))

\* add(key, amount)
add(st, key, amount) == addGot(get(st, key, Num(0)), key, ToNumberOr0(amount))

\* subtract(key, amount)
subtract(st, key, amount) == add(st, key, Num(0 - ToNumberOr0(amount)))

\* the array push appends to
pushArr(current) ==
    IF current.t = "array" THEN current.a
    ELSE IF current.t \in {"undefined", "null"} THEN <<>>
    ELSE <<current>>

\* push, g being what get(key) did
pushGot(g, key, value) == setAndReturn(g.st, key, Arr(Append(pushArr(g.ret.v), value)))

\* push(key, value)
push(st, key, value) == pushGot(get(st, key, Undef), key, value)

\* v !== value: primitives by value, objects and arrays by identity, which a
\* value passed by the caller never shares with a stored one
StrictNotEqual(v, value) == v.t \in {"object", "array", "function"} \/ v # value

\* pull removing the elements that equal value structurally
pullGotStructural(g, key, value) ==
    IF g.ret.v.t # "array" THEN Out(g.st, Returns(Arr(<<>>)))
    ELSE setAndReturn(g.st, key, Arr(SelectSeq(g.ret.v.a, LAMBDA v : v # value)))

\* pull writing an empty array over what is not an array
pullGotOverwrite(g, key, value) ==
    IF g.ret.v.t # "array" THEN setAndReturn(g.st, key, Arr(<<>>))
    ELSE setAndReturn(g.st, key,
                      Arr(SelectSeq(g.ret.v.a, LAMBDA v : StrictNotEqual(v, value))))

\* pull, g being what get(key) did
pullGot(g, key, value) ==
    IF g.ret.v.t # "array" THEN Out(g.st, Returns(Arr(<<>>)))
    ELSE setAndReturn(g.st, key,
                      Arr(SelectSeq(g.ret.v.a, LAMBDA v : StrictNotEqual(v, value))))

\* pull(key, value)
pull(st, key, value) == pullGot(get(st, key, Undef), key, value)

\* the place of a symbol in the order field names are listed in
SymRank(c) ==
    CASE c = "0" -> 0
      [] c = "a" -> 1
      [] c = "b" -> 2
      [] c = "valueOf" -> 3
      [] c = "undefined" -> 4
      [] OTHER -> 5

\* x comes before y in that order
RECURSIVE NameBefore(_, _)
NameBefore(x, y) ==
    IF x = <<>> THEN y # <<>>
    ELSE IF y = <<>> THEN FALSE
    ELSE IF Head(x) = Head(y) THEN NameBefore(Tail(x), Tail(y))
    ELSE SymRank(Head(x)) < SymRank(Head(y))

FirstName(names) == CHOOSE x \in names : \A y \in names \ {x} : NameBefore(x, y)

\* Object.entries order: the own field names as a list.  The document keeps
\* no insertion order; names are listed in one fixed order.
RECURSIVE OrderedNames(_)
OrderedNames(names) ==
    IF names = {} THEN <<>>
    ELSE <<FirstName(names)>> \o OrderedNames(names \ {FirstName(names)})

\* const fullKey = prefix ? `${prefix}.${k}` : k
FullKey(prefix, k) == IF prefix # <<>> THEN DotJoin(prefix, k) ELSE k

\* _flatten(obj, prefix, out), as the entries it appends to out
RECURSIVE flatten(_, _)
RECURSIVE flattenEntries(_, _, _)
flattenEntries(obj, prefix, names) ==
    IF names = <<>> THEN <<>>
    ELSE (IF IsMapping(obj.o[Head(names)])
          THEN flatten(obj.o[Head(names)], FullKey(prefix, Head(names)))
          ELSE <<[key |-> FullKey(prefix, Head(names)), value |-> obj.o[Head(names)]]>>)
         \o flattenEntries(obj, prefix, Tail(names))

flatten(obj, prefix) ==
    IF obj.t # "object" THEN <<>>
    ELSE flattenEntries(obj, prefix, OrderedNames(DOMAIN obj.o))

\* entries.map((e) => e.key)
RECURSIVE KeysOf(_)
KeysOf(entries) ==
    IF entries = <<>> THEN <<>> ELSE <<Head(entries).key>> \o KeysOf(Tail(entries))

\* all() after the sweep
allSwept(c) == Out(c, Returns(Stringify(c.data)))

\* all()
all(st) == allSwept(cleanupExpired(st))

\* allArray() after the sweep
allArraySwept(c) == Out(c, ReturnsList(flatten(c.data, <<>>)))

\* allArray()
allArray(st) == allArraySwept(cleanupExpired(st))

\* a filter that matches the prefix segment by segment
FilterPrefixBySegment(entries, prefix) ==
    SelectSeq(entries, LAMBDA e : /\ StartsWith(e.key, prefix)
                                  /\ \/ Len(e.key) = Len(prefix)
                                     \/ prefix[Len(prefix)] = Dot
                                     \/ e.key[Len(prefix) + 1] = Dot)

\* entries.filter((e) => e.key.startsWith(prefix))
FilterPrefix(entries, prefix) == SelectSeq(entries, LAMBDA e : StartsWith(e.key, prefix))

\* keys(prefix) after the sweep; prefix <<>> is no prefix
keysSwept(c, prefix) ==
    IF prefix # <<>>
    THEN Out(c, ReturnsList(KeysOf(FilterPrefix(flatten(c.data, <<>>), prefix))))
    ELSE Out(c, ReturnsList(KeysOf(flatten(c.data, <<>>))))

\* keys(prefix)
keys(st, prefix) == keysSwept(cleanupExpired(st), prefix)

\* startsWith(prefix) after the sweep
startsWithSwept(c, prefix) == Out(c, ReturnsList(FilterPrefix(flatten(c.data, <<>>), prefix)))

\* startsWith(prefix)
startsWith(st, prefix) == startsWithSwept(cleanupExpired(st), prefix)

\* type, g being what get(key, undefined) did
typeGot(g) ==
    Out(g.st, Returns(Str(CASE g.ret.v.t = "undefined" -> "undefined"
                            [] g.ret.v.t = "null" -> "null"
                            [] g.ret.v.t = "array" -> "array"
                            [] OTHER -> TypeOf(g.ret.v))))

\* type(key): get(key, undefined) takes the parameter's default, null
type(st, key) == typeGot(get(st, key, Undef))

\* clear()
clear(st) == Out(save([st EXCEPT !.data = EmptyObj, !.meta = EmptyMeta]), ReturnsVoid)

-----------------------------------------------------------------------------
(* FlxDBNamespace *)

\* _k(key), for a key that is a non-empty string
nsKey(ns, key) == DotJoin(ns, key)

\* _k(key) throws for a key that is not a non-empty string
NsThrows(st) == Out(st, Throws("TypeError"))

nsSet(st, ns, key, value, ttl, schemaName) ==
    IF key = <<>> THEN NsThrows(st) ELSE set(st, nsKey(ns, key), value, ttl, schemaName)

nsGet(st, ns, key, defaultValue) ==
    IF key = <<>> THEN NsThrows(st) ELSE get(st, nsKey(ns, key), defaultValue)

nsHas(st, ns, key) ==
    IF key = <<>> THEN NsThrows(st) ELSE has(st, nsKey(ns, key))

nsDelete(st, ns, key) ==
    IF key = <<>> THEN NsThrows(st) ELSE delete(st, nsKey(ns, key))

nsPush(st, ns, key, value) ==
    IF key = <<>> THEN NsThrows(st) ELSE push(st, nsKey(ns, key), value)

\* .map((e) => ({ key: e.key.slice(prefix.length), value: e.value }))
RECURSIVE SliceEntries(_, _)
SliceEntries(entries, n) ==
    IF entries = <<>> THEN <<>>
    ELSE <<[key |-> Slice(Head(entries).key, n), value |-> Head(entries).value]>>
         \o SliceEntries(Tail(entries), n)

\* .map((k) => k.slice(basePrefix.length))
RECURSIVE SliceKeys(_, _)
SliceKeys(ks, n) ==
    IF ks = <<>> THEN <<>> ELSE <<Slice(Head(ks), n)>> \o SliceKeys(Tail(ks), n)

\* FlxDBNamespace.allArray(), r being what core.startsWith(prefix) did
nsAllArrayGot(r, n) == Out(r.st, ReturnsList(SliceEntries(r.ret.l, n)))

\* FlxDBNamespace.allArray()
nsAllArray(st, ns) == nsAllArrayGot(startsWith(st, ns \o <<Dot>>), Len(ns) + 1)

\* FlxDBNamespace.keys(prefix), r being what core.keys(fullPrefix) did
nsKeysGot(r, n) == Out(r.st, ReturnsList(SliceKeys(r.ret.l, n)))

\* FlxDBNamespace.keys(prefix); prefix <<>> is no prefix
nsKeys(st, ns, prefix) == nsKeysGot(keys(st, (ns \o <<Dot>>) \o prefix), Len(ns) + 1)

\* obj[parts[parts.length - 1]] = value, r being where the loop of all() over
\* the segments before the last ended
nsAllAssign(r, value) == AssignAt(r.data, r.path, r.last, value)

\* the body of the loop of FlxDBNamespace.all() for one entry
nsAllPut(result, e) == nsAllAssign(getRefParts(result, splitKey(e.key), TRUE), e.value)

\* the loop of FlxDBNamespace.all() over the entries of allArray()
RECURSIVE nsAllBuild(_, _)
nsAllBuild(entries, result) ==
    IF entries = <<>> THEN result
    ELSE nsAllBuild(Tail(entries), nsAllPut(result, Head(entries)))

\* FlxDBNamespace.all(), r being what this.allArray() did
nsAllGot(r) == Out(r.st, Returns(nsAllBuild(r.ret.l, EmptyObj)))

\* FlxDBNamespace.all()
nsAll(st, ns) == nsAllGot(nsAllArray(st, ns))

-----------------------------------------------------------------------------
(* The state machine *)

\* a load that gives every loaded key a tracker entry that has expired
loadTracked(file) ==
    CASE file.kind = "json" ->
           Store(file.doc, [k \in DOMAIN file.doc.o |-> [expiresAt |-> 1, schema |-> NoSchema]],
                 file, 0, FALSE)
      [] file.kind = "none" -> save(Store(EmptyObj, EmptyMeta, file, 0, FALSE))
      [] OTHER -> Store(EmptyObj, EmptyMeta, file, 0, FALSE)

\* _load: this.data and the file after construction
load(file) ==
    CASE file.kind = "json" -> Store(file.doc, EmptyMeta, file, 0, FALSE)
      [] file.kind = "none" -> save(Store(EmptyObj, EmptyMeta, file, 0, FALSE))
      [] OTHER -> Store(EmptyObj, EmptyMeta, file, 0, FALSE)

\* no set with a ttl is being followed
NoWatch == [key |-> <<>>, until |-> 0]

NoSchemas == [n \in {} |-> Schema("", {}, EmptyFields)]

\* the caller keeps no value returned by all(); v is the value kept and live
\* says that it is the store's own object
NoHeld == [v |-> Undef, live |-> FALSE]

\* all() handing out this.data itself
allKeptLive(r) == [v |-> r.st.data, live |-> TRUE]

\* what the caller holds after all() did r: the result of
\* JSON.parse(JSON.stringify(this.data)), which shares no object with the store
allKept(r) == [v |-> r.ret.v, live |-> FALSE]

\* the value the caller holds after call c left the document as d: an object
\* of the store changes with it, until clear() puts a new object in its place
Follow(c, h, d) ==
    IF ~h.live THEN h
    ELSE IF c.op = "clear" THEN [h EXCEPT !.live = FALSE]
    ELSE [h EXCEPT !.v = d]

\* the constructor, for the files and autosave options given
Construct(files, autosaves) ==
    /\ autosave \in autosaves
    /\ diskOk = TRUE
    /\ now = 1
    /\ schemas = NoSchemas
    /\ \E file \in files :
          /\ data = load(file).data
          /\ meta = load(file).meta
          /\ disk = load(file).disk
          /\ nsaves = load(file).nsaves
          /\ saveFailed = load(file).failed
    /\ ops = 0
    /\ call = [op |-> "constructor"]
    /\ ret = ReturnsVoid
    /\ watch = NoWatch
    /\ held = NoHeld

\* the public calls that are reads
ReadOps == {"get", "fetch", "has", "type", "all", "allArray", "keys", "startsWith",
            "ns.get", "ns.has", "ns.allArray", "ns.keys", "ns.all"}

\* watch after call c with outcome o: the key and expiry of a set with a ttl
\* for as long as only reads follow it
Watch(c, o) ==
    IF c.op = "set" /\ o.ret.t = "return" /\ c.ttl # NoTtl
    THEN [key |-> c.key, until |-> now + c.ttl]
    ELSE IF c.op \in ReadOps THEN watch ELSE NoWatch

\* the store as a public call finds it
Cur == Store(data, meta, disk, 0, saveFailed)

\* a public call c with outcome o, after which the caller holds h
DoKeep(c, o, h) ==
    /\ ops < MaxOps
    /\ ops' = ops + 1
    /\ data' = o.st.data
    /\ meta' = o.st.meta
    /\ disk' = o.st.disk
    /\ nsaves' = o.st.nsaves
    /\ saveFailed' = o.st.failed
    /\ call' = c
    /\ ret' = o.ret
    /\ watch' = Watch(c, o)
    /\ held' = h
    /\ UNCHANGED <<schemas, now, autosave, diskOk>>

\* a public call c with outcome o
Do(c, o) == DoKeep(c, o, Follow(c, held, o.st.data))

Set(K, V, T, S) ==
    \E key \in K, value \in V, ttl \in T, schemaName \in S :
        Do([op |-> "set", key |-> key, value |-> value, ttl |-> ttl, schema |-> schemaName],
           set(Cur, key, value, ttl, schemaName))

SetObject(M) ==
    \E source \in M : Do([op |-> "setObject", source |-> source], setObject(Cur, source))

Get(K, D) ==
    \E key \in K, defaultValue \in D :
        Do([op |-> "get", key |-> key, defaultValue |-> defaultValue],
           get(Cur, key, defaultValue))

\* fetch(key, defaultValue), which returns this.get(key, defaultValue)
Fetch(K, D) ==
    \E key \in K, defaultValue \in D :
        Do([op |-> "fetch", key |-> key, defaultValue |-> defaultValue],
           get(Cur, key, defaultValue))

Has(K) == \E key \in K : Do([op |-> "has", key |-> key], has(Cur, key))

Ensure(K, V) ==
    \E key \in K, value \in V :
        Do([op |-> "ensure", key |-> key, value |-> value], ensure(Cur, key, value))

Delete(K) == \E key \in K : Do([op |-> "delete", key |-> key], delete(Cur, key))

Add(K, V) ==
    \E key \in K, amount \in V :
        Do([op |-> "add", key |-> key, value |-> amount], add(Cur, key, amount))

Subtract(K, V) ==
    \E key \in K, amount \in V :
        Do([op |-> "subtract", key |-> key, value |-> amount], subtract(Cur, key, amount))

Push(K, V) ==
    \E key \in K, value \in V :
        Do([op |-> "push", key |-> key, value |-> value], push(Cur, key, value))

Pull(K, V) ==
    \E key \in K, value \in V :
        Do([op |-> "pull", key |-> key, value |-> value], pull(Cur, key, value))

All == Do([op |-> "all"], all(Cur))

\* all(), the caller keeping what it returns
AllKeep == DoKeep([op |-> "all"], all(Cur), allKept(all(Cur)))

\* the caller assigns a field of the mapping it keeps
MutateHeld(F, V) ==
    \E f \in F, v \in V :
        /\ ops < MaxOps
        /\ held.v.t = "object"
        /\ ops' = ops + 1
        /\ held' = [held EXCEPT !.v = Obj(Put(held.v.o, f, v))]
        /\ data' = IF held.live THEN Obj(Put(held.v.o, f, v)) ELSE data
        /\ call' = [op |-> "mutateHeld", field |-> f, value |-> v]
        /\ ret' = ReturnsVoid
        /\ nsaves' = 0
        /\ watch' = NoWatch
        /\ UNCHANGED <<meta, schemas, now, disk, autosave, diskOk, saveFailed>>

AllArray == Do([op |-> "allArray"], allArray(Cur))

KeysCall(P) == \E prefix \in P : Do([op |-> "keys", prefix |-> prefix], keys(Cur, prefix))

StartsWithCall(P) ==
    \E prefix \in P : Do([op |-> "startsWith", prefix |-> prefix], startsWith(Cur, prefix))

Type(K) == \E key \in K : Do([op |-> "type", key |-> key], type(Cur, key))

Clear == Do([op |-> "clear"], clear(Cur))

\* !name.trim(), for the names of the model
IsBlank(name) == name \in {"", " "}

\* schema && typeof schema === "object": a definition is an object; of the
\* other values the model passes only null and primitives
IsObjectArg(schema) == "t" \notin DOMAIN schema

\* registerSchema(name, schema), for a name that is a string: the schemas
\* registered after it, and what it returned
registerSchema(s, name, schema) ==
    IF IsBlank(name) \/ ~IsObjectArg(schema)
    THEN [schemas |-> s, ret |-> Throws("TypeError")]
    ELSE [schemas |-> Put(s, name, schema), ret |-> ReturnsVoid]

RegisterSchema(N, D) ==
    \E name \in N, schema \in D :
        /\ ops < MaxOps
        /\ ops' = ops + 1
        /\ schemas' = registerSchema(schemas, name, schema).schemas
        /\ call' = [op |-> "registerSchema", name |-> name, def |-> schema]
        /\ ret' = registerSchema(schemas, name, schema).ret
        /\ nsaves' = 0
        /\ UNCHANGED <<data, meta, disk, now, autosave, diskOk, saveFailed, watch, held>>

NsSet(N, K, V, T) ==
    \E ns \in N, key \in K, value \in V, ttl \in T :
        Do([op |-> "ns.set", ns |-> ns, key |-> key, value |-> value, ttl |-> ttl],
           nsSet(Cur, ns, key, value, ttl, NoSchema))

NsGet(N, K) ==
    \E ns \in N, key \in K :
        Do([op |-> "ns.get", ns |-> ns, key |-> key], nsGet(Cur, ns, key, Undef))

NsHas(N, K) ==
    \E ns \in N, key \in K :
        Do([op |-> "ns.has", ns |-> ns, key |-> key], nsHas(Cur, ns, key))

NsDelete(N, K) ==
    \E ns \in N, key \in K :
        Do([op |-> "ns.delete", ns |-> ns, key |-> key], nsDelete(Cur, ns, key))

NsPush(N, K, V) ==
    \E ns \in N, key \in K, value \in V :
        Do([op |-> "ns.push", ns |-> ns, key |-> key, value |-> value],
           nsPush(Cur, ns, key, value))

NsAllArray(N) == \E ns \in N : Do([op |-> "ns.allArray", ns |-> ns], nsAllArray(Cur, ns))

NsKeysCall(N) ==
    \E ns \in N : Do([op |-> "ns.keys", ns |-> ns], nsKeys(Cur, ns, <<>>))

NsAll(N) == \E ns \in N : Do([op |-> "ns.all", ns |-> ns], nsAll(Cur, ns))

\* the interval timer of _startTTLWatcher fires: one pass of _cleanupExpired
Sweep ==
    LET c == cleanupExpired(Cur)
    IN  /\ data' = c.data
        /\ meta' = c.meta
        /\ disk' = c.disk
        /\ nsaves' = c.nsaves
        /\ saveFailed' = c.failed
        /\ call' = [op |-> "sweep"]
        /\ ret' = ReturnsVoid
        /\ held' = Follow([op |-> "sweep"], held, cleanupExpired(Cur).data)
        /\ UNCHANGED <<schemas, now, autosave, diskOk, ops, watch>>

\* Date.now() advances
Tick ==
    /\ now < MaxTime
    /\ now' = now + 1
    /\ call' = [op |-> "tick"]
    /\ ret' = ReturnsVoid
    /\ nsaves' = 0
    /\ UNCHANGED <<data, meta, schemas, disk, autosave, diskOk, ops, saveFailed, watch, held>>

\* the process ends and a new one constructs the store over the file it
\* left, with the same options; the set that watch follows is still the last
\* write
Restart ==
    /\ ops < MaxOps
    /\ ops' = ops + 1
    /\ data' = load(disk).data
    /\ meta' = load(disk).meta
    /\ disk' = load(disk).disk
    /\ nsaves' = load(disk).nsaves
    /\ saveFailed' = load(disk).failed
    /\ schemas' = NoSchemas
    /\ call' = [op |-> "constructor"]
    /\ ret' = ReturnsVoid
    /\ held' = NoHeld
    /\ UNCHANGED <<now, autosave, diskOk, watch>>

\* fs.writeFileSync starts or stops failing
BackendFault ==
    /\ diskOk' = ~diskOk
    /\ UNCHANGED <<data, meta, schemas, now, disk, autosave, ops, call, ret, nsaves,
                   saveFailed, watch, held>>

-----------------------------------------------------------------------------
(* Strings and values the calls are made with *)

kA == <<"a">>
kB == <<"b">>
k0 == <<"0">>
kAB == <<"a", ".", "b">>
kAdotdotB == <<"a", ".", ".", "b">>
kA0 == <<"a", ".", "0">>
kDot == <<".">>
kValueOf == <<"valueOf">>

-----------------------------------------------------------------------------
(* Spec: the keyed operations of the core on a fresh store, with keys that
   are plain, nested, through an array index, without any segment, and the
   name of an inherited property *)

CoreKeys == {kA, kAB, kA0, kDot, kValueOf}
CoreValues == {Num(1), Null, Arr(<<Num(1)>>)}
\* push on a key without segments stores the document inside itself, which
\* the values of the model cannot hold
PushKeys == CoreKeys \ {kDot}

Init == Construct({NoFile}, {TRUE})

Next ==
    \/ Set(CoreKeys, CoreValues, {NoTtl}, {NoSchema})
    \/ Get(CoreKeys, {Undef, Num(7)})
    \/ Has(CoreKeys)
    \/ Delete(CoreKeys)
    \/ Push(PushKeys, {Num(2)})

Spec == Init /\ [][Next]_vars

\* the store after the step, as the next public call finds it
CurNext == Store(data', meta', disk', 0, saveFailed')

\* a public call of operation o returned in this step
Called(o) == call'.op = o /\ ops' = ops + 1

\* key has at least one segment and none names an inherited property
OrdinaryKey(key) ==
    /\ splitKey(key) # <<>>
    /\ \A i \in 1..Len(splitKey(key)) : splitKey(key)[i] \notin ProtoNames

\* C1: after a string-mode set(K, V) that raises no schema error, get(K)
\* returns V, for every key K that is a non-empty string.
C1_SetGetRoundTrip ==
    (call.op = "set" /\ ret.t = "return") => get(Cur, call.key, Undef).ret.v = call.value

\* C2: after delete(K) returns, true or false, has(K) is false and get(K, D)
\* returns D.  Stated for the keys K that have a segment and name no
\* inherited property.
C2_DeleteThenAbsent ==
    (call.op = "delete" /\ OrdinaryKey(call.key)) =>
        /\ has(Cur, call.key).ret.v = Bool(FALSE)
        /\ get(Cur, call.key, Num(7)).ret.v = Num(7)

\* C9: delete(K) returns true only when it removes K's terminal segment, so
\* the delete(K) that follows a delete(K) returning true returns false.
C9_DeleteTwice ==
    (call.op = "delete" /\ ret.v = Bool(TRUE)) => delete(Cur, call.key).ret.v = Bool(FALSE)

\* C10: push(K, v) returns [v] when K is absent, the sequence with v appended
\* when K holds a sequence, and [old, v] when K holds any other present value
\* old, null included; get(K) then returns what push returned.
C10_PushResult ==
    [][Called("push") =>
         /\ ret'.v = IF ~has(Cur, call'.key).ret.v.b THEN Arr(<<call'.value>>)
                     ELSE IF walk(data, splitKey(call'.key)).value.t = "array"
                          THEN Arr(Append(walk(data, splitKey(call'.key)).value.a, call'.value))
                          ELSE Arr(<<walk(data, splitKey(call'.key)).value, call'.value>>)
         /\ get(CurNext, call'.key, Undef).ret.v = ret'.v]_vars

\* the keys of a list of entries, as a set
KeySet(entries) == {entries[i].key : i \in 1..Len(entries)}

\* C33: allArray() lists exactly the addressable leaves: for every entry it
\* returns, has(key) is true and get(key) is the entry's value; and every key
\* for which has is true and whose value is not a non-empty mapping is listed
\* by allArray() and by keys().
C33_ListsLeaves ==
    /\ \A i \in 1..Len(allArray(Cur).ret.l) :
          /\ has(Cur, allArray(Cur).ret.l[i].key).ret = Returns(Bool(TRUE))
          /\ get(Cur, allArray(Cur).ret.l[i].key, Undef).ret
                = Returns(allArray(Cur).ret.l[i].value)
    /\ \A k \in CoreKeys :
          (/\ has(Cur, k).ret = Returns(Bool(TRUE))
           /\ ~(/\ IsMapping(get(Cur, k, Undef).ret.v)
                /\ DOMAIN get(Cur, k, Undef).ret.v.o # {})) =>
              /\ k \in KeySet(allArray(Cur).ret.l)
              /\ k \in {keys(Cur, <<>>).ret.l[i] : i \in 1..Len(keys(Cur, <<>>).ret.l)}

-----------------------------------------------------------------------------
(* SpecTtl: writes with and without a ttl, the clock, the sweep timer and
   the lazy check, on a key and on a second spelling of it *)

TtlKeys == {kA, kAB, kAdotdotB}
TtlValues == {Num(1), Obj(Field(kB, Num(1)))}
Ttls == {NoTtl, 1, 2}

NextTtl ==
    \/ Set(TtlKeys, TtlValues, Ttls, {NoSchema})
    \/ Get(TtlKeys, {Num(7)})
    \/ Has(TtlKeys)
    \/ Delete(TtlKeys)
    \/ AllArray
    \/ Sweep
    \/ Tick

SpecTtl == Init /\ [][NextTtl]_vars

\* the keys allArray() lists
ListedKeys == KeysOf(allArray(Cur).ret.l)

\* C3: after set(K, V, {ttl: T}) followed only by reads, sweeps and the
\* passing of time, has(K) is true until T has elapsed; from then on has(K)
\* is false, get(K, D) returns D and allArray() does not list K.
C3_TtlVisibility ==
    watch # NoWatch =>
        IF now < watch.until
        THEN has(Cur, watch.key).ret.v = Bool(TRUE)
        ELSE /\ has(Cur, watch.key).ret.v = Bool(FALSE)
             /\ get(Cur, watch.key, Num(7)).ret.v = Num(7)
             /\ \A i \in 1..Len(ListedKeys) : ListedKeys[i] # watch.key

\* C8: a keyed operation on a key whose tracker entry is Expired returns what
\* it returns for a key never written: get the default, has false, delete
\* false; and the reads leave no tracker entry for the key.
C8_ExpiredAsNeverWritten ==
    [][(ops' = ops + 1 /\ call'.op \in {"get", "has", "delete"}
          /\ IsExpired(meta, call'.key)) =>
         /\ call'.op = "get" => ret'.v = call'.defaultValue
         /\ call'.op = "has" => ret'.v = Bool(FALSE)
         /\ call'.op = "delete" => ret'.v = Bool(FALSE)
         /\ call'.key \notin DOMAIN meta']_vars

\* C26: two spellings of one key ("a.b" and "a..b", which split into the
\* same segments) are interchangeable: in every state has, get and delete
\* return for the one what they return for the other, and leave the same
\* document.
C26_KeySpellings ==
    /\ has(Cur, kAB).ret = has(Cur, kAdotdotB).ret
    /\ has(Cur, kAB).st.data = has(Cur, kAdotdotB).st.data
    /\ get(Cur, kAB, Num(7)).ret = get(Cur, kAdotdotB, Num(7)).ret
    /\ get(Cur, kAB, Num(7)).st.data = get(Cur, kAdotdotB, Num(7)).st.data
    /\ delete(Cur, kAB).ret = delete(Cur, kAdotdotB).ret
    /\ delete(Cur, kAB).st.data = delete(Cur, kAdotdotB).st.data

\* C27: a key without a tracker entry does not expire: whatever preceded it,
\* a set(K, V) without ttl leaves no entry for K, and neither a sweep nor the
\* lazy check of a read that follows it removes the value.
C27_NoEntryNoExpiry ==
    [][(Called("set") /\ call'.ttl = NoTtl) =>
         /\ call'.key \notin DOMAIN meta'
         /\ HoldsKey(cleanupExpired(CurNext).data, call'.key)
         /\ get(cleanupExpired(CurNext), call'.key, Undef).ret = Returns(call'.value)
         /\ get(CurNext, call'.key, Undef).ret = Returns(call'.value)]_vars

\* C28: the tracker holds an entry for a key only while the document holds
\* the value that a set with a ttl or a schema wrote under it: in every state,
\* every key of the tracker has a value in the document, and a delete or a
\* set without options that has just returned left no entry for its key.
C28_EntriesHaveValues ==
    /\ \A k \in DOMAIN meta : HoldsKey(data, k)
    /\ (call.op = "delete" /\ ret = Returns(Bool(TRUE))) => call.key \notin DOMAIN meta
    /\ (call.op = "set" /\ ret.t = "return" /\ call.ttl = NoTtl /\ call.schema = NoSchema) =>
          call.key \notin DOMAIN meta

\* C30: one pass of the sweep removes the value and the tracker entry of
\* every entry that is expired and touches no other entry: an entry that is
\* not expired keeps its entry and its value; the pass saves once if it
\* removed a value and not at all otherwise.
C30_SweepPass ==
    [][(call'.op = "sweep") =>
         /\ \A k \in DOMAIN meta :
               IF IsExpired(meta, k)
               THEN k \notin DOMAIN meta' /\ ~HoldsKey(data', k)
               ELSE /\ k \in DOMAIN meta' /\ meta'[k] = meta[k]
                    /\ HoldsKey(data, k) =>
                          /\ HoldsKey(data', k)
                          /\ walk(data', splitKey(k)) = walk(data, splitKey(k))
         /\ DOMAIN meta' \subseteq DOMAIN meta
         /\ nsaves' = IF data' # data THEN 1 ELSE 0]_vars

\* C31: once the entry of a key K is expired, get, has and type on K and on
\* the path K.b below it answer as for an absent key, before any sweep or
\* lazy check of K: has is false, get returns the default, type is "null".
C31_NoStaleRead ==
    \A k \in DOMAIN meta :
        IsExpired(meta, k) =>
            \A d \in {k, DotJoin(k, kB)} :
                /\ has(Cur, d).ret = Returns(Bool(FALSE))
                /\ get(Cur, d, Num(7)).ret = Returns(Num(7))
                /\ type(Cur, d).ret = Returns(Str("null"))

-----------------------------------------------------------------------------
(* SpecSchema: registered schemas and sets that name one *)

SchemaKeys == {kA, kAB}
SchemaValues == {Num(1), Null, Obj(Field(kB, Num(1))), Obj(Field(kA, Num(1)))}
SchemaNames == {"S"}

\* schema definitions passed to registerSchema
SchemaDefs == {Schema("object", {kB}, Field(kB, "string")),
               Schema("object", {kB}, Field(kB, "number"))}

NextSchema ==
    \/ RegisterSchema(SchemaNames, SchemaDefs)
    \/ Set(SchemaKeys, SchemaValues, {NoTtl, 1}, SchemaNames \cup {NoSchema})
    \/ Get(SchemaKeys, {Undef})
    \/ Tick

SpecSchema == Init /\ [][NextSchema]_vars

\* C4: a set(K, V, {schema: S}) that raises a schema error commits nothing:
\* the document, the tracker and the file are as before the call, and get(K)
\* and has(K) answer as before it.
C4_FailedSetCommitsNothing ==
    [][(Called("set") /\ ret'.t = "throw") =>
         /\ data' = data /\ meta' = meta /\ disk' = disk
         /\ get(CurNext, call'.key, Undef).ret = get(Cur, call'.key, Undef).ret
         /\ has(CurNext, call'.key).ret = has(Cur, call'.key).ret]_vars

\* a set naming a registered schema has been refused for its value, on a key
\* that was never set
C4_Witness ==
    /\ call.op = "set" /\ ret = Throws("PropType")
    /\ has(Cur, call.key).ret.v = Bool(FALSE)

-----------------------------------------------------------------------------
(* SpecMerge: object-mode sets over a document built by string-mode sets *)

MergeKeys == {kA, kAB, kB}
MergeValues == {Num(1), Arr(<<Num(1)>>), Obj(Field(kB, Num(1)))}

\* sources of an object-mode set
Sources == {Obj(Field(kA, Obj(Field(kB, Num(1))))),
            Obj(Field(kA, Obj(Field(kA, Num(2))))),
            Obj(Field(kA, Arr(<<Num(2)>>))),
            Obj(Field(kB, Obj(Field(kB, Arr(<<Num(2)>>))))),
            Obj(Field(kA, Obj(Field(kB, Obj(Field(kA, Num(3)))))))}

NextMerge ==
    \/ SetObject(Sources)
    \/ Set(MergeKeys, MergeValues, {NoTtl}, {NoSchema})
    \/ Delete(MergeKeys)

SpecMerge == Init /\ [][NextMerge]_vars

\* new is old with src merged in as the claim words it: new has the fields of
\* both; a field src does not name is kept; where both hold a mapping the
\* field is their merge; anything else src names replaces what was there
RECURSIVE MergedAsClaimed(_, _, _)
MergedAsClaimed(old, src, new) ==
    /\ DOMAIN new = (DOMAIN old) \cup (DOMAIN src)
    /\ \A f \in DOMAIN new :
          IF f \notin DOMAIN src THEN new[f] = old[f]
          ELSE IF IsMapping(src[f]) /\ f \in DOMAIN old /\ IsMapping(old[f])
          THEN new[f].t = "object" /\ MergedAsClaimed(old[f].o, src[f].o, new[f].o)
          ELSE new[f] = src[f]

\* C7: object-mode set(M) merges M into the root: mapping into mapping field
\* by field at every depth, anything else (arrays included) replacing what
\* was there; the fields of the document M does not name are unchanged; M is
\* returned.
C7_DeepMerge ==
    [][Called("setObject") =>
         /\ MergedAsClaimed(data.o, call'.source.o, data'.o)
         /\ ret' = Returns(call'.source)]_vars

\* set({a: {a: 2}}) has been merged into a document whose a held {b: 1}
C7_Witness ==
    /\ call.op = "setObject"
    /\ kA \in DOMAIN data.o
    /\ data.o[kA] = Obj([g \in {kA, kB} |-> IF g = kA THEN Num(2) ELSE Num(1)])

-----------------------------------------------------------------------------
(* SpecBackend: the file, with autosave on or off, loaded from nothing, from
   text that is empty or does not parse, or from a saved document, and with
   writes that may fail *)

InitialFiles == {NoFile, EmptyFile, CorruptFile, JsonFile(Obj(Field(kA, Num(1))))}

BackendKeys == {kA, kAB}
BackendValues == {Num(1), Arr(<<Num(1)>>)}

InitBackend == Construct(InitialFiles, BOOLEAN)

NextBackend ==
    \/ Set(BackendKeys, BackendValues, {NoTtl, 1}, {NoSchema})
    \/ SetObject({Obj(Field(kA, Obj(Field(kB, Num(1)))))})
    \/ Get(BackendKeys, {Undef})
    \/ Delete(BackendKeys)
    \/ Push({kA}, {Num(2)})
    \/ Pull({kA}, {Num(1)})
    \/ Add({kAB}, {Num(1)})
    \/ Ensure({kAB}, {Num(1)})
    \/ Has({kA})
    \/ Clear
    \/ Sweep
    \/ Tick
    \/ BackendFault

SpecBackend == InitBackend /\ [][NextBackend]_vars

\* C6: with autosave on and no failed write, the file holds the in-memory
\* document whenever a public call or a sweep has returned: loading it gives
\* the document.
C6_FileFollowsDocument ==
    (autosave /\ ~saveFailed) => load(disk).data = Stringify(data)

\* a sweep has reclaimed an expired key and saved, with autosave on and no
\* failed write
C6_Witness ==
    /\ autosave /\ ~saveFailed
    /\ call.op = "sweep" /\ nsaves = 1
    /\ disk = JsonFile(data)

\* C22: a save that fails is not surfaced and rolls nothing back: with the
\* file unwritable, set and the object-mode set return their value, delete
\* and push return as usual, the document and the tracker hold the mutation
\* (a later get or has sees it), the file keeps its old content, and get
\* answers from the document whatever the file holds.
C22_SaveFailureKeepsMutation ==
    [][(autosave /\ ~diskOk /\ ops' = ops + 1) =>
          /\ disk' = disk
          /\ nsaves' > 0 => saveFailed'
          /\ Called("set") =>
                /\ ret' = Returns(call'.value)
                /\ get(CurNext, call'.key, Undef).ret = Returns(call'.value)
                /\ (call'.ttl # NoTtl) =>
                      (call'.key \in DOMAIN meta' /\ meta'[call'.key].expiresAt = now + call'.ttl)
                /\ (call'.ttl = NoTtl) => call'.key \notin DOMAIN meta'
          /\ Called("setObject") =>
                /\ ret' = Returns(call'.source)
                /\ data' = deepMerge(data, call'.source)
          /\ Called("delete") =>
                /\ ret'.t = "return"
                /\ (ret'.v = Bool(TRUE)) => has(CurNext, call'.key).ret = Returns(Bool(FALSE))
          /\ (Called("push") /\ ret'.t = "return") =>
                get(CurNext, call'.key, Undef).ret = ret'
          /\ Called("clear") => (data' = EmptyObj /\ meta' = EmptyMeta)
          /\ Called("get") =>
                ret' = get(Store(data, meta, NoFile, 0, FALSE), call'.key, call'.defaultValue).ret
      ]_vars

\* a set has returned its value with the file unwritable, and the file no
\* longer holds the document
C22_Witness ==
    /\ autosave /\ ~diskOk /\ saveFailed
    /\ call.op = "set" /\ ret = Returns(call.value)
    /\ get(Cur, call.key, Undef).ret = Returns(call.value)
    /\ load(disk).data # Stringify(data)

-----------------------------------------------------------------------------
(* SpecNs: two namespaces over one store *)

NsNames == {kA, kB}
NsKeys == {kA, kAB, <<>>}
NsValues == {Num(1), Obj(Field(kB, Num(1)))}

NextNs ==
    \/ NsSet(NsNames, NsKeys, NsValues, {NoTtl, 1})
    \/ NsGet(NsNames, NsKeys)
    \/ NsHas(NsNames, NsKeys)
    \/ NsDelete(NsNames, NsKeys)
    \/ NsPush(NsNames, NsKeys, {Num(2)})
    \/ NsAllArray(NsNames)
    \/ NsKeysCall(NsNames)
    \/ Tick

SpecNs == Init /\ [][NextNs]_vars

\* C5: a call through namespace a leaves what every call through another
\* namespace b returns unchanged, and namespace(a).set(x, v) shows at the
\* root as get("a.x") = v.
C5_NamespaceIsolation ==
    [][\A b \in NsNames :
         (ops' = ops + 1 /\ call'.ns # b) =>
            /\ \A k \in NsKeys \ {<<>>} :
                  /\ nsGet(CurNext, b, k, Undef).ret = nsGet(Cur, b, k, Undef).ret
                  /\ nsHas(CurNext, b, k).ret = nsHas(Cur, b, k).ret
            /\ (call'.op = "ns.set" /\ ret'.t = "return") =>
                  get(CurNext, DotJoin(call'.ns, call'.key), Undef).ret.v = call'.value]_vars

-----------------------------------------------------------------------------
(* SpecList: pull over arrays with repeated and nested elements, over values
   that are no array, and over keys that have expired *)

ListKeys == {kA, kAB, kA0, kDot}
ListValues == {Arr(<<Num(1), Num(2), Num(1)>>), Arr(<<Arr(<<Num(1)>>), Num(1)>>), Num(1)}
PullValues == {Num(1), Arr(<<Num(1)>>)}

NextList ==
    \/ Set(ListKeys, ListValues, {NoTtl, 1}, {NoSchema})
    \/ Pull(ListKeys, PullValues)
    \/ Delete({kA})
    \/ Tick

SpecList == Init /\ [][NextList]_vars

\* e and v are the same primitive value
PrimitivelyEqual(e, v) == e.t \in {"number", "string", "boolean", "null"} /\ e = v

\* C11: when K holds a sequence, pull(K, v) returns it without the elements
\* primitively equal to v, the others kept in order, and get(K) afterwards
\* returns the same sequence.
C11_PullFilters ==
    [][(Called("pull") /\ get(Cur, call'.key, Undef).ret.v.t = "array") =>
         /\ ret' = Returns(Arr(SelectSeq(get(Cur, call'.key, Undef).ret.v.a,
                                         LAMBDA e : ~PrimitivelyEqual(e, call'.value))))
         /\ get(CurNext, call'.key, Undef).ret.v = ret'.v]_vars

\* pull("a", 1) on a = [[1], 1] has returned [[1]]: the number is removed,
\* the array holding it is kept
C11_Witness ==
    /\ call.op = "pull" /\ call.key = kA /\ call.value = Num(1)
    /\ ret = Returns(Arr(<<Arr(<<Num(1)>>)>>))

\* C12: when K, not expired, is absent or holds what is no sequence,
\* pull(K, v) returns an empty sequence and the document, the tracker and
\* the file are as before the call.
C12_PullNoSequence ==
    [][(/\ Called("pull")
        /\ ~IsExpired(meta, call'.key)
        /\ get(Cur, call'.key, Undef).ret.v.t # "array") =>
         /\ ret' = Returns(Arr(<<>>))
         /\ data' = data /\ meta' = meta /\ disk' = disk]_vars

\* pull has returned [] for a key that holds a number
C12_Witness ==
    /\ call.op = "pull" /\ ret = Returns(Arr(<<>>))
    /\ get(Cur, call.key, Undef).ret.v = Num(1)

-----------------------------------------------------------------------------
(* SpecScan: keys and startsWith over documents with nested mappings, arrays,
   empty mappings, names that share a first letter, and expiring keys *)

kAb == <<"a", "b">>
kADot == <<"a", ".">>

ScanKeys == {kA, kAB, kAb, kB}
ScanValues == {Num(1), Arr(<<Num(1)>>), EmptyObj}
Prefixes == {<<>>, kA, kADot, kAb}

NextScan ==
    \/ Set(ScanKeys, ScanValues, {NoTtl, 1}, {NoSchema})
    \/ Delete({kAB})
    \/ KeysCall(Prefixes)
    \/ StartsWithCall(Prefixes \ {<<>>})
    \/ Tick

SpecScan == Init /\ [][NextScan]_vars

\* the keys of the leaves of mapping obj: the names on the way to each value
\* that is no mapping, joined by dots
RECURSIVE LeafKeySet(_)
LeafKeySet(obj) ==
    UNION {IF IsMapping(obj.o[f])
           THEN {DotJoin(f, k) : k \in LeafKeySet(obj.o[f])}
           ELSE {f} : f \in DOMAIN obj.o}

\* depth first: the keys under one root field are listed together
ListedTogether(l) ==
    \A i, j, k \in 1..Len(l) :
        (i < j /\ j < k /\ Split(l[i])[1] = Split(l[k])[1]) => Split(l[j])[1] = Split(l[i])[1]

\* C13: keys(P) returns exactly the leaf keys of the document that begin with
\* the string P, each once, depth first, arrays being leaves; keys() returns
\* them all; startsWith(P) returns the keys of keys(P) with their values.
C13_PrefixScan ==
    [][/\ Called("keys") =>
            /\ {ret'.l[i] : i \in 1..Len(ret'.l)} =
                 {k \in LeafKeySet(data') : call'.prefix = <<>> \/ StartsWith(k, call'.prefix)}
            /\ \A i, j \in 1..Len(ret'.l) : ret'.l[i] = ret'.l[j] => i = j
            /\ ListedTogether(ret'.l)
       /\ Called("startsWith") =>
            /\ KeysOf(ret'.l) = keys(CurNext, call'.prefix).ret.l
            /\ \A i \in 1..Len(ret'.l) :
                  ret'.l[i].value = get(CurNext, ret'.l[i].key, Undef).ret.v]_vars

\* keys("a") has listed "a.b" and "ab"
C13_Witness ==
    /\ call.op = "keys" /\ call.prefix = kA
    /\ \E i, j \in 1..Len(ret.l) : ret.l[i] = kAB /\ ret.l[j] = kAb

-----------------------------------------------------------------------------
(* SpecNsView: one namespace over a document that is also written at the
   root, by dotted keys and by merges whose field names hold a dot *)

ViewNames == {kA}
ViewKeys == {kB, kAB}

\* sources of the object-mode sets at the root
ViewSources == {Obj(Field(kAB, Num(1))), Obj(Field(kA, Obj(Field(kB, Num(2)))))}

NextNsView ==
    \/ NsSet(ViewNames, ViewKeys, {Num(1)}, {NoTtl})
    \/ NsGet(ViewNames, ViewKeys)
    \/ NsDelete(ViewNames, ViewKeys)
    \/ SetObject(ViewSources)
    \/ NsAllArray(ViewNames)
    \/ NsKeysCall(ViewNames)
    \/ NsAll(ViewNames)

SpecNsView == Init /\ [][NextNsView]_vars

\* the step returned what o returned and left the store as o left it
SameAs(o) ==
    /\ ret' = o.ret
    /\ data' = o.st.data /\ meta' = o.st.meta /\ disk' = o.st.disk

\* C14: a namespace operation on key does what the core operation on
\* "N." + key does, and every key that the namespace's keys() and allArray()
\* return is, with "N." put back, a key the core has.
C14_NamespaceDelegates ==
    [][/\ Called("ns.set") =>
            SameAs(set(Cur, DotJoin(call'.ns, call'.key), call'.value, call'.ttl, NoSchema))
       /\ Called("ns.get") => SameAs(get(Cur, DotJoin(call'.ns, call'.key), Undef))
       /\ Called("ns.delete") => SameAs(delete(Cur, DotJoin(call'.ns, call'.key)))
       /\ Called("ns.keys") =>
            \A i \in 1..Len(ret'.l) :
               has(CurNext, DotJoin(call'.ns, ret'.l[i])).ret.v = Bool(TRUE)
       /\ Called("ns.allArray") =>
            \A i \in 1..Len(ret'.l) :
               get(CurNext, DotJoin(call'.ns, ret'.l[i].key), Undef).ret.v = ret'.l[i].value]_vars

\* C15: namespace(N).all() returns the mapping the root document holds under
\* N.
C15_NamespaceAll ==
    [][(/\ Called("ns.all")
        /\ call'.ns \in DOMAIN data'.o
        /\ IsMapping(data'.o[call'.ns])) =>
         ret' = Returns(data'.o[call'.ns])]_vars

-----------------------------------------------------------------------------
(* SpecValidate: sets validated against schemas of every declared type *)

ValidateDefs == {Schema("array", {}, EmptyFields),
                 Schema("null", {}, EmptyFields),
                 Schema("number", {}, EmptyFields),
                 Schema("object", {kB}, Field(kB, "number")),
                 Schema("object", {}, Field(kB, "array"))}

ValidateValues == {Num(1), Null, Arr(<<Num(1)>>),
                   Obj(Field(kB, Num(1))), Obj(Field(kB, Arr(<<Num(1)>>))), EmptyObj}

NextValidate ==
    \/ RegisterSchema(SchemaNames, ValidateDefs)
    \/ Set({kA, kB}, ValidateValues, {NoTtl}, SchemaNames)

SpecValidate == Init /\ [][NextValidate]_vars

\* the type of a value as type() names it
TypeName(v) == IF v.t \in {"null", "array"} THEN v.t ELSE TypeOf(v)

\* the reference rule: the declared type is the value's; for an object,
\* every required field is there; every declared field that is there has its
\* declared type
ReferenceAccepts(schema, v) ==
    /\ schema.type # "" => TypeName(v) = schema.type
    /\ schema.type = "object" =>
          /\ \A field \in schema.required : v.t = "object" /\ field \in DOMAIN v.o
          /\ \A field \in DOMAIN schema.props :
                (v.t = "object" /\ field \in DOMAIN v.o) =>
                   TypeName(v.o[field]) = schema.props[field]

\* C17: a set that names a registered schema goes through exactly when the
\* reference rule accepts the value.
C17_ValidationRule ==
    [][(Called("set") /\ call'.schema \in DOMAIN schemas) =>
         (ret'.t = "return" <=> ReferenceAccepts(schemas[call'.schema], call'.value))]_vars

-----------------------------------------------------------------------------
(* SpecArith: add, subtract and ensure over keys that are absent, expired,
   numeric, not numeric, nested, and without any segment *)

ArithKeys == {kA, kAB, kDot}
ArithValues == {Num(1), Null, Str("x"), Obj(Field(kB, Num(1)))}
Amounts == {Num(1), Num(2)}
EnsureValues == {Num(2), Null}

NextArith ==
    \/ Set(ArithKeys, ArithValues, {NoTtl, 1}, {NoSchema})
    \/ Add(ArithKeys, Amounts)
    \/ Subtract(ArithKeys, Amounts)
    \/ Ensure(ArithKeys, EnsureValues)
    \/ Delete({kA})
    \/ Tick

SpecArith == Init /\ [][NextArith]_vars

\* a value read as a number: itself when it is one, 0 when it is absent (the
\* read gave the 0 asked for) or not numeric
ReadAsNumber(v) == IF v.t = "number" THEN v.n ELSE 0

\* C18: add(K, n) returns cur + n, cur being K's value read as a number and 0
\* when K is absent or not numeric, and get(K) afterwards returns that total;
\* subtract(K, n) returns and does what add(K, -n) returns and does.
C18_AddSubtract ==
    [][/\ Called("add") =>
            /\ ret' = Returns(Num(ReadAsNumber(get(Cur, call'.key, Num(0)).ret.v)
                                  + call'.value.n))
            /\ get(CurNext, call'.key, Undef).ret.v = ret'.v
       /\ Called("subtract") =>
            /\ SameAs(add(Cur, call'.key, Num(0 - call'.value.n)))
            /\ get(CurNext, call'.key, Undef).ret.v = ret'.v]_vars

\* C19: ensure(K, d) returns K's value and changes nothing when has(K) is
\* true, and stores and returns d when has(K) is false; afterwards has(K) is
\* true and another ensure(K, d2) returns what the first returned.
C19_Ensure ==
    [][Called("ensure") =>
         /\ IF has(Cur, call'.key).ret.v.b
            THEN /\ ret' = get(Cur, call'.key, Undef).ret
                 /\ data' = data /\ meta' = meta /\ disk' = disk
            ELSE /\ ret' = Returns(call'.value)
                 /\ get(CurNext, call'.key, Undef).ret.v = call'.value
         /\ has(CurNext, call'.key).ret.v = Bool(TRUE)
         /\ \A d2 \in EnsureValues \cup {Num(1)} :
               ensure(CurNext, call'.key, d2).ret = ret']_vars

-----------------------------------------------------------------------------
(* SpecClear: clear among sets with and without a ttl, sweeps and reads, with
   keys that are empty, without any segment, and the name of an inherited
   property *)

kEmpty == <<>>

ClearKeys == {kA, kAB, kDot, kValueOf}

NextClear ==
    \/ Set(ClearKeys \cup {kEmpty}, {Num(1)}, {NoTtl, 1}, {NoSchema})
    \/ Get({kEmpty, kA}, {Undef})
    \/ Has(ClearKeys \cup {kEmpty})
    \/ Delete({kEmpty, kA})
    \/ Clear
    \/ Sweep
    \/ Tick

SpecClear == Init /\ [][NextClear]_vars

\* C16: a keyed operation called with an empty string for a key fails and
\* leaves the document and the tracker unchanged.
C16_InvalidKey ==
    [][(/\ ops' = ops + 1
        /\ call'.op \in {"set", "get", "has", "delete"}
        /\ call'.key = kEmpty) =>
         /\ ret'.t = "throw"
         /\ data' = data /\ meta' = meta]_vars

\* C20: after clear() the document and the tracker are empty: has(K) is false
\* for every K and keys() is empty. (With no tracker entry left, no sweep or
\* lazy check has anything to remove from what is written afterwards.)
C20_Clear ==
    [][Called("clear") =>
         /\ data' = EmptyObj /\ meta' = EmptyMeta
         /\ keys(CurNext, <<>>).ret.l = <<>>
         /\ \A K \in ClearKeys : has(CurNext, K).ret.v = Bool(FALSE)]_vars

-----------------------------------------------------------------------------
(* SpecCopy: a caller that keeps what all() returned and assigns to it,
   among writes to the store *)

NextCopy ==
    \/ Set({kA, kAB}, {Num(1), Num(2)}, {NoTtl}, {NoSchema})
    \/ Delete({kA})
    \/ Clear
    \/ AllKeep
    \/ MutateHeld({kA, kB}, {Num(1), Num(9)})

SpecCopy == Init /\ [][NextCopy]_vars

\* C21: what all() returned is independent of the store: assigning to it
\* changes neither the document nor the tracker nor the file (so no later get,
\* has, keys or all), and no later call on the store changes it.
C21_AllIsACopy ==
    [][/\ Called("mutateHeld") =>
            /\ data' = data /\ meta' = meta /\ disk' = disk
            /\ all(CurNext).ret = all(Cur).ret
       /\ (ops' = ops + 1 /\ call'.op \notin {"mutateHeld", "all"}) => held'.v = held.v]_vars

\* the caller has assigned a field of what all() returned from a document
\* that held a value, and a set has followed
C21_Witness ==
    /\ call.op = "set"
    /\ held.v.t = "object" /\ kB \in DOMAIN held.v.o /\ held.v.o[kB] = Num(9)
    /\ kB \notin DOMAIN data.o

-----------------------------------------------------------------------------
(* SpecSweepFair: the interval timer of _startTTLWatcher keeps firing and
   time keeps passing, whatever the caller does; the file may be unwritable
   and autosave may be off *)

SweepKeys == {kA, kAB}
SweepFiles == {NoFile, JsonFile(Obj(Field(kA, Num(1))))}

InitSweepFair == Construct(SweepFiles, BOOLEAN)

NextSweepFair ==
    \/ Set(SweepKeys, {Num(1)}, {NoTtl, 1, 2}, {NoSchema})
    \/ Get({kAB}, {Undef})
    \/ Delete({kA})
    \/ Sweep
    \/ Tick
    \/ BackendFault

\* the timer fires while an entry is expired: weak fairness of the sweep that
\* finds an expired entry, WF_vars(ExpiredKeys(meta) # {} /\ Sweep), written
\* out (such a sweep is enabled exactly when an entry is expired, and it
\* always removes the entry)
SweepFires ==
    \/ []<>(ExpiredKeys(meta) = {})
    \/ []<><<ExpiredKeys(meta) # {} /\ Sweep>>_vars

SpecSweepFair ==
    InitSweepFair /\ [][NextSweepFair]_vars /\ WF_vars(Tick) /\ SweepFires

\* the last write was a set of a key with a ttl that ends within the time
\* modelled
Watches == [key : SweepKeys, until : 1..MaxTime]

\* C23: with the sweep timer firing fairly, a key set with a ttl and not
\* written again is, once the ttl has elapsed, removed from the document, and
\* from the file too when autosave is on and no write has failed.
C23_SweepReclaims ==
    \A w \in Watches :
        (watch = w) ~>
            \/ watch # w
            \/ /\ now >= w.until
               /\ ~HoldsKey(data, w.key)
               /\ (autosave /\ ~saveFailed) => ~HoldsKey(load(disk).data, w.key)

\* C23 as stated: the key is removed from the document and from the file,
\* whatever the autosave option and the state of the file system.
C23_SweepReclaimsFile ==
    \A w \in Watches :
        (watch = w) ~>
            \/ watch # w
            \/ /\ now >= w.until
               /\ ~HoldsKey(data, w.key)
               /\ ~HoldsKey(load(disk).data, w.key)

\* a sweep has removed the key from the document and saved, the ttl of the
\* last set over and no call made on the key since
C23_Witness ==
    /\ watch \in Watches /\ now >= watch.until
    /\ call.op = "sweep" /\ nsaves = 1 /\ autosave /\ ~saveFailed
    /\ ~HoldsKey(data, watch.key)
    /\ ~HoldsKey(load(disk).data, watch.key)

-----------------------------------------------------------------------------
(* The legacy core, the class appended to index.d.ts.  Its helpers _load,
   _save, _splitKey, _getRef, _deepMerge and _flatten are those of the v1.1
   core line for line, and are modelled by the same operators; it has no
   tracker, which its operators leave as they find it. *)

\* legacy set, string-key mode, r being what _getRef(key, true) returned
legacySetRef(st, value, r) ==
    Out(save([st EXCEPT !.data = AssignAt(r.data, r.path, r.last, value)]), Returns(value))

\* legacy set(key, value), string-key mode
legacySet(st, key, value) == legacySetRef(st, value, getRef(st.data, key, TRUE))

\* legacy object-mode set assigning the fields of the source (Object.assign)
legacySetObjectShallow(st, source) ==
    Out(save([st EXCEPT !.data = deepMergeShallow(st.data, source)]), Returns(source))

\* legacy set(source), object mode
legacySetObject(st, source) ==
    Out(save([st EXCEPT !.data = deepMerge(st.data, source)]), Returns(source))

\* legacy get(key, defaultValue)
legacyGet(st, key, defaultValue) ==
    getFound(st, walk(st.data, splitKey(key)),
             IF defaultValue = Undef THEN Null ELSE defaultValue)

\* legacy has(key)
legacyHas(st, key) == Out(st, Returns(Bool(walk(st.data, splitKey(key)).found)))

\* a write through the legacy set(key, value) whose caller returns the value
legacyWrite(st, key, value) == Out(legacySet(st, key, value).st, Returns(value))

\* legacy ensure(key, defaultValue)
legacyEnsure(st, key, defaultValue) ==
    IF ~legacyHas(st, key).ret.v.b THEN legacyWrite(st, key, defaultValue)
    ELSE legacyGet(st, key, Undef)

\* legacy delete, r being what _getRef(key, false) returned
legacyDeleteRef(st, r) ==
    IF ~RefPresent(st.data, r) THEN Out(st, Returns(Bool(FALSE)))
    ELSE Out(save([st EXCEPT !.data = DeleteAt(st.data, r.path, r.last)]), Returns(Bool(TRUE)))

\* legacy delete(key)
legacyDelete(st, key) == legacyDeleteRef(st, getRef(st.data, key, FALSE))

\* legacy add(key, amount)
legacyAdd(st, key, amount) ==
    legacyWrite(st, key,
                Num(ToNumberOr0(legacyGet(st, key, Num(0)).ret.v) + ToNumberOr0(amount)))

\* legacy subtract(key, amount)
legacySubtract(st, key, amount) == legacyAdd(st, key, Num(0 - ToNumberOr0(amount)))

\* legacy push(key, value)
legacyPush(st, key, value) ==
    legacyWrite(st, key, Arr(Append(pushArr(legacyGet(st, key, Undef).ret.v), value)))

\* legacy pull, current being what get(key) returned
legacyPullGot(st, key, value, current) ==
    IF current.t # "array" THEN Out(st, Returns(Arr(<<>>)))
    ELSE legacyWrite(st, key, Arr(SelectSeq(current.a, LAMBDA v : StrictNotEqual(v, value))))

\* legacy pull(key, value)
legacyPull(st, key, value) == legacyPullGot(st, key, value, legacyGet(st, key, Undef).ret.v)

\* legacy all()
legacyAll(st) == Out(st, Returns(Stringify(st.data)))

\* legacy allArray()
legacyAllArray(st) == Out(st, ReturnsList(flatten(st.data, <<>>)))

\* legacy keys(prefix); prefix <<>> is no prefix
legacyKeys(st, prefix) ==
    IF prefix # <<>>
    THEN Out(st, ReturnsList(KeysOf(FilterPrefix(flatten(st.data, <<>>), prefix))))
    ELSE Out(st, ReturnsList(KeysOf(flatten(st.data, <<>>))))

\* legacy startsWith(prefix)
legacyStartsWith(st, prefix) ==
    Out(st, ReturnsList(FilterPrefix(flatten(st.data, <<>>), prefix)))

\* legacy type, val being what get(key, undefined) returned
legacyTypeOf(st, val) ==
    Out(st, Returns(Str(CASE val.t = "undefined" -> "undefined"
                          [] val.t = "null" -> "null"
                          [] val.t = "array" -> "array"
                          [] OTHER -> TypeOf(val))))

\* legacy type(key)
legacyType(st, key) == legacyTypeOf(st, legacyGet(st, key, Undef).ret.v)

\* legacy clear()
legacyClear(st) == Out(save([st EXCEPT !.data = EmptyObj]), ReturnsVoid)

\* the legacy core doing the call c
legacy(st, c) ==
    CASE c.op = "set" -> legacySet(st, c.key, c.value)
      [] c.op = "setObject" -> legacySetObject(st, c.source)
      [] c.op = "get" -> legacyGet(st, c.key, c.defaultValue)
      [] c.op = "has" -> legacyHas(st, c.key)
      [] c.op = "ensure" -> legacyEnsure(st, c.key, c.value)
      [] c.op = "delete" -> legacyDelete(st, c.key)
      [] c.op = "add" -> legacyAdd(st, c.key, c.value)
      [] c.op = "subtract" -> legacySubtract(st, c.key, c.value)
      [] c.op = "push" -> legacyPush(st, c.key, c.value)
      [] c.op = "pull" -> legacyPull(st, c.key, c.value)
      [] c.op = "all" -> legacyAll(st)
      [] c.op = "allArray" -> legacyAllArray(st)
      [] c.op = "keys" -> legacyKeys(st, c.prefix)
      [] c.op = "startsWith" -> legacyStartsWith(st, c.prefix)
      [] c.op = "type" -> legacyType(st, c.key)
      [] c.op = "clear" -> legacyClear(st)

-----------------------------------------------------------------------------
(* SpecCompat: the v1.1 core called with string keys and no options, over an
   existing file or none *)

CompatKeys == {kA, kAB, kDot}
CompatValues == {Num(1), Arr(<<Num(1)>>), Obj(Field(kB, Num(2)))}
CompatSources == {Obj(Field(kA, Obj(Field(kA, Num(1))))), Obj(Field(kAB, Num(1)))}
CompatFiles == {NoFile, JsonFile(Obj(Field(kA, Obj(Field(kB, Null)))))}

InitCompat == Construct(CompatFiles, {TRUE})

NextCompat ==
    \/ Set(CompatKeys, CompatValues, {NoTtl}, {NoSchema})
    \/ SetObject(CompatSources)
    \/ Get({kA, kAB}, {Undef, Num(7)})
    \/ Has({kAB, kDot})
    \/ Ensure({kAB}, {Num(3)})
    \/ Delete({kA, kAB})
    \/ Add({kA, kAB}, {Num(1)})
    \/ Subtract({kAB}, {Num(1)})
    \/ Push({kA}, {Num(1)})
    \/ Pull({kA}, {Num(1)})
    \/ KeysCall({<<>>, kA})
    \/ StartsWithCall({kA})
    \/ AllArray
    \/ All
    \/ Type({kAB})
    \/ Clear

SpecCompat == InitCompat /\ [][NextCompat]_vars

\* C24: with string keys and no options, every call of the v1.1 core returns
\* what the legacy core returns for it, and leaves the document and the file
\* as the legacy core leaves them.
C24_LegacyEquivalence ==
    [][(ops' = ops + 1) => (SameAs(legacy(Cur, call')) /\ meta' = EmptyMeta)]_vars

\* an object-mode set has merged into a mapping that held other fields
C24_Witness ==
    /\ call.op = "setObject" /\ ops = MaxOps
    /\ IsMapping(GetProp(data, kA)) /\ Cardinality(DOMAIN GetProp(data, kA).o) = 2

-----------------------------------------------------------------------------
(* SpecRegister: registerSchema called with names and definitions of every
   kind, and sets that name a schema *)

RegisterNames == {"S", "", " "}

\* the type names a schema may declare (FLXDBSchema)
SchemaTypes == {"string", "number", "boolean", "object", "array", "null"}

RegisterDefs == {Schema("number", {}, EmptyFields),
                 Schema("object", {kB}, Field(kB, "number")),
                 Schema("bogus", {}, EmptyFields),
                 Null, Num(1)}

RegisterValues == {Num(1), Obj(Field(kB, Num(1)))}

NextRegister ==
    \/ RegisterSchema(RegisterNames, RegisterDefs)
    \/ Set({kA}, RegisterValues, {NoTtl}, {"S"})
    \/ Get({kA}, {Undef})

SpecRegister == Init /\ [][NextRegister]_vars

\* a definition as FLXDBSchema declares it: an object whose type, and whose
\* fields' types, are absent or among the six type names
WellFormed(def) ==
    /\ "t" \notin DOMAIN def
    /\ def.type \in SchemaTypes \cup {""}
    /\ \A f \in DOMAIN def.props : def.props[f] \in SchemaTypes \cup {""}

\* C25: registerSchema(name, def) with a non-empty name and a well-formed
\* definition stores def under name, in place of any earlier one, and later
\* sets naming the schema are validated against it; with an empty name or a
\* definition that is not well formed it throws and registers nothing.
C25_RegisterSchema ==
    [][/\ Called("registerSchema") =>
            IF ~IsBlank(call'.name) /\ WellFormed(call'.def)
            THEN /\ ret' = ReturnsVoid
                 /\ DOMAIN schemas' = DOMAIN schemas \cup {call'.name}
                 /\ schemas'[call'.name] = call'.def
                 /\ \A n \in DOMAIN schemas \ {call'.name} : schemas'[n] = schemas[n]
            ELSE /\ ret'.t = "throw"
                 /\ schemas' = schemas
       /\ (Called("set") /\ call'.schema \in DOMAIN schemas) =>
            (ret'.t = "throw" <=> validate(schemas[call'.schema], call'.value) # "ok")]_vars

-----------------------------------------------------------------------------
(* SpecPath: sets and deletes of keys of one to three segments, over
   intermediates that are absent, scalars, null, arrays and mappings *)

kABA == <<"a", ".", "b", ".", "a">>

PathKeys == {kA, kB, kAB, kABA}
PathValues == {Num(1), Null, Arr(<<Num(1)>>), Obj(Field(kB, Num(1)))}

NextPath ==
    \/ Set(PathKeys, PathValues, {NoTtl}, {NoSchema})
    \/ Delete(PathKeys)

SpecPath == Init /\ [][NextPath]_vars

\* the value the segments of path lead to, undefined when they lead nowhere
RECURSIVE ValueAt(_, _)
ValueAt(obj, path) ==
    IF path = <<>> THEN obj ELSE ValueAt(GetProp(obj, Head(path)), Tail(path))

\* an intermediate segment of parts is absent from d or holds no mapping
Blocked(d, parts) ==
    \E i \in 1..(Len(parts) - 1) : ~IsMapping(ValueAt(d, SubSeq(parts, 1, i)))

\* new is old after a set of v at parts: down the path, each mapping has the
\* fields it had and the next segment; what was under an intermediate segment
\* is kept if it was a mapping and is a fresh mapping otherwise; the last
\* segment holds v
RECURSIVE SetFrame(_, _, _, _)
SetFrame(old, new, parts, v) ==
    /\ IsMapping(new)
    /\ DOMAIN new.o = DOMAIN old.o \cup {Head(parts)}
    /\ \A f \in DOMAIN old.o \ {Head(parts)} : new.o[f] = old.o[f]
    /\ IF Len(parts) = 1 THEN new.o[Head(parts)] = v
       ELSE SetFrame(IF IsMapping(GetProp(old, Head(parts))) THEN GetProp(old, Head(parts))
                     ELSE EmptyObj,
                     new.o[Head(parts)], Tail(parts), v)

\* C29: resolving a path without createMissing changes nothing and finds no
\* parent exactly when an intermediate segment is absent or holds no mapping
\* (delete then returns false and leaves the document); a string-mode set
\* puts a fresh empty mapping in place of every such intermediate, losing
\* what was there, and leaves every field off the path as it was.
C29_PathResolution ==
    [][/\ Called("delete") =>
            /\ getRef(data, call'.key, FALSE).data = data
            /\ getRef(data, call'.key, FALSE).found = ~Blocked(data, splitKey(call'.key))
            /\ Blocked(data, splitKey(call'.key)) =>
                  (ret' = Returns(Bool(FALSE)) /\ data' = data)
       /\ Called("set") => SetFrame(data, data', splitKey(call'.key), call'.value)]_vars

\* a set of "a.b.a" has made or kept the mappings on its path, each with no
\* other field, beside a field "b" of the root that it left alone
C29_Witness ==
    /\ call.op = "set" /\ call.key = kABA /\ ops = MaxOps
    /\ kB \in DOMAIN data.o
    /\ DOMAIN data.o[kA].o = {kB}
    /\ DOMAIN data.o[kA].o[kB].o = {kA}

-----------------------------------------------------------------------------
(* SpecRewrite: add, subtract, push and pull on keys that were set with a
   ttl *)

RewriteKeys == {kA, kAB}
RewriteValues == {Num(1), Arr(<<Num(1), Num(2)>>)}

NextRewrite ==
    \/ Set(RewriteKeys, RewriteValues, {NoTtl, 1}, {NoSchema})
    \/ Add(RewriteKeys, {Num(1)})
    \/ Subtract(RewriteKeys, {Num(1)})
    \/ Push(RewriteKeys, {Num(3)})
    \/ Pull(RewriteKeys, {Num(1)})
    \/ Tick

SpecRewrite == Init /\ [][NextRewrite]_vars

\* the step is an add, a subtract, a push, or a pull that found a sequence,
\* on a key that has a tracker entry
Rewrites ==
    /\ ops' = ops + 1
    /\ call'.key \in DOMAIN meta
    /\ \/ call'.op \in {"add", "subtract", "push"}
       \/ call'.op = "pull" /\ get(Cur, call'.key, Undef).ret.v.t = "array"

\* C32: after add, subtract, push, or pull on a sequence, the key has no
\* tracker entry and its value does not expire: neither a sweep nor the lazy
\* check of a read removes what the call returned.
C32_RewriteDropsTtl ==
    [][Rewrites =>
         /\ call'.key \notin DOMAIN meta'
         /\ HoldsKey(cleanupExpired(CurNext).data, call'.key)
         /\ get(cleanupExpired(CurNext), call'.key, Undef).ret = ret'
         /\ get(CurNext, call'.key, Undef).ret = ret']_vars

-----------------------------------------------------------------------------
(* SpecRestart: a store whose process is restarted over the file it saved,
   with autosave on or off *)

RestartKeys == {kA, kAB}

InitRestart == Construct({NoFile}, BOOLEAN)

NextRestart ==
    \/ Set(RestartKeys, {Num(1)}, {NoTtl, 1, 2}, {NoSchema})
    \/ Get({kA}, {Undef})
    \/ Delete({kA})
    \/ Restart
    \/ Sweep
    \/ Tick

SpecRestart == InitRestart /\ [][NextRestart]_vars

\* C34: the tracker is no part of what is saved: a call that saves leaves in
\* the file exactly the document; a store constructed over the file holds
\* the document of the file and an empty tracker, so no loaded key expires,
\* one whose ttl had not elapsed included: a sweep of the new store removes
\* nothing.
C34_TrackerNotSaved ==
    [][/\ (autosave /\ nsaves' > 0) => disk' = JsonFile(Stringify(data'))
       /\ (call'.op = "constructor" /\ ops' = ops + 1) =>
            /\ meta' = EmptyMeta
            /\ data' = IF disk.kind = "json" THEN disk.doc ELSE EmptyObj
            /\ autosave => data' = Stringify(data)
            /\ cleanupExpired(CurNext).data = data'
            /\ \A k \in DOMAIN meta :
                  (disk.kind = "json" /\ HoldsKey(disk.doc, k)) =>
                      get(CurNext, k, Undef).ret = Returns(walk(disk.doc, splitKey(k)).value)
       /\ (call'.op = "sweep" /\ meta = EmptyMeta) => data' = data]_vars

\* the store was restarted before the ttl of the last set had elapsed, time
\* has passed that ttl, and a sweep has left the key in the document
C34_Witness ==
    /\ call.op = "sweep" /\ meta = EmptyMeta
    /\ watch # NoWatch /\ now >= watch.until
    /\ HoldsKey(data, watch.key)
    /\ disk.kind = "json" /\ HoldsKey(disk.doc, watch.key)

-----------------------------------------------------------------------------
(* SpecReads: every read operation, among sets with and without a ttl and
   the passing of time *)

ReadKeys == {kA, kAB}

NextReads ==
    \/ Set(ReadKeys, {Num(1)}, {NoTtl, 1, 2}, {NoSchema})
    \/ Get(ReadKeys, {Undef})
    \/ Fetch({kA}, {Num(7)})
    \/ Has(ReadKeys)
    \/ Type({kA})
    \/ KeysCall({<<>>, kA})
    \/ StartsWithCall({kA})
    \/ AllArray
    \/ All
    \/ Tick

SpecReads == Init /\ [][NextReads]_vars

\* C35: while no tracker entry is expired, get, fetch, has, type, keys,
\* startsWith, allArray and all change neither the document nor the tracker
\* and save nothing.
C35_ReadsChangeNothing ==
    [][(/\ ops' = ops + 1
        /\ call'.op \in {"get", "fetch", "has", "type", "keys", "startsWith", "allArray", "all"}
        /\ ExpiredKeys(meta) = {}) =>
         /\ data' = data /\ meta' = meta
         /\ disk' = disk /\ nsaves' = 0 /\ saveFailed' = saveFailed]_vars

\* keys() has returned in a store whose tracker holds an entry that has not
\* expired
C35_Witness ==
    /\ call.op = "keys" /\ nsaves = 0
    /\ meta # EmptyMeta /\ ExpiredKeys(meta) = {}
    /\ HoldsKey(data, kAB)

====
